---- MODULE Spec2Model ----
(***************************************************************************)
(* The Telegram video forwarder: the production relay                      *)
(* (telegram_video_forwarder.py) and the Render-adapted relay (main.py).   *)
(* One main task per process runs start(); after the handler is            *)
(* registered the client dispatches every new-message notification to its  *)
(* own handler task, and the tasks interleave at their await points.       *)
(***************************************************************************)
EXTENDS Integers, Sequences, FiniteSets, TLC

\* ------------------------------------------------------------------ bounds
\* Notifications dispatched during one run (one handler task each).
MaxHandlers == 2
\* Largest server-specified wait (seconds) a rate-limit or slow-mode
\* failure carries.
MaxWait == 2

\* ------------------------------------------------------- program constants
MAX_RETRIES == 3
RETRY_DELAY == 5

Handlers == 1..MaxHandlers
Waits == 1..MaxWait

VARIABLES
    variant,          \* which program runs: "production" or "render"
    mpc,              \* position of the main task
    exitCode,         \* process exit code; -1 while the process is alive
    client,           \* self.client has been constructed
    connected,        \* the transport client holds a connection
    authOk,           \* client.start() has returned
    sourceOk,         \* get_entity(SOURCE_CHANNEL) has returned
    destOk,           \* get_entity(DEST_CHANNEL) has returned
    registered,       \* the NewMessage handler is registered
    is_running,       \* self.is_running
    stopCalled,       \* bot.stop() has begun
    statsLogged,      \* stop() has logged the statistics
    startErr,         \* the failure that ended the start-up, "none" without one
    forwarded_count,  \* self.forwarded_count
    error_count,      \* self.error_count
    detected,         \* media_type of the latest "New ... detected" log line
    hpc,              \* per handler task: its position
    attempt,          \* per handler task: the attempt argument of the active call
    exc,              \* per handler task: the exception its active call caught
    branch,           \* per handler task: the except branch that is sleeping
    delay,            \* per handler task: the argument of the pending asyncio.sleep
    calls,            \* per handler task: forward calls issued
    fwd,              \* per handler task: increments it made to forwarded_count
    err,              \* per handler task: increments it made to error_count
    tracing,          \* history variables: whether hist and sleeps are recorded
    hist,             \* per handler task: the failures its forward calls raised
    sleeps            \* per handler task: the durations it passed to asyncio.sleep

mainVars == <<variant, mpc, exitCode, client, connected, authOk, sourceOk, destOk,
              registered, is_running, stopCalled, statsLogged, startErr>>
countVars == <<forwarded_count, error_count>>
taskVars == <<detected, hpc, attempt, exc, branch, delay, calls, fwd, err, tracing, hist,
              sleeps>>
vars == <<mainVars, countVars, taskVars>>

\* ------------------------------------------------------------- exceptions
\* The exception classes the two programs name, with their base class.
Parent(c) ==
    CASE c \in {"FloodWaitError", "SlowModeWaitError", "ChatWriteForbiddenError",
                "UserBannedInChannelError", "MediaEmptyError", "ChannelPrivateError",
                "SessionPasswordNeededError"} -> "RPCError"
      [] c \in {"RPCError", "ValueError", "AttributeError", "ConnectionError"} -> "Exception"
      [] c \in {"Exception", "KeyboardInterrupt", "SystemExit", "CancelledError"} -> "BaseException"
      [] OTHER -> "object"

RECURSIVE IsInstance(_, _)
IsInstance(e, c) ==
    IF e = c THEN TRUE
    ELSE IF e \in {"BaseException", "object"} THEN FALSE
    ELSE IsInstance(Parent(e), c)

\* Index of the first except clause that catches e; 0 when none does.
FirstMatch(e, clauses) ==
    IF \E i \in 1..Len(clauses) : IsInstance(e, clauses[i])
    THEN CHOOSE i \in 1..Len(clauses) :
            /\ IsInstance(e, clauses[i])
            /\ \A j \in 1..(i - 1) : ~IsInstance(e, clauses[j])
    ELSE 0

\* ---------------------------------------------------------- classification
Chars(s) == [present |-> TRUE, chars |-> s]
NoMime == [present |-> FALSE, chars |-> <<>>]
VideoPrefix == <<"v", "i", "d", "e", "o", "/">>
MimeVideoMp4 == Chars(VideoPrefix \o <<"m", "p", "4">>)
MimeUpperVideo == Chars(<<"V", "i", "d", "e", "o", "/", "m", "p", "4">>)
MimeImagePng == Chars(<<"i", "m", "a", "g", "e", "/", "p", "n", "g">>)
MimePdf == Chars(<<"a", "p", "p", "l", "i", "c", "a", "t", "i", "o", "n", "/", "p", "d", "f">>)
MimeShort == Chars(<<"v", "i", "d", "e", "o">>)
MimeEmpty == Chars(<<>>)

Item(media, doc, mime, video) == [media |-> media, doc |-> doc, mime |-> mime, video |-> video]

\* The messages a notification can carry: the media kind, whether the media
\* holds a document object, the document's MIME type and the message's video
\* property.
Items ==
    { Item("none", FALSE, NoMime, FALSE),
      Item("photo", FALSE, NoMime, FALSE),
      Item("document", FALSE, NoMime, FALSE),
      Item("document", TRUE, NoMime, FALSE),
      Item("document", TRUE, MimeEmpty, FALSE),
      Item("document", TRUE, MimePdf, FALSE),
      Item("document", TRUE, MimeImagePng, FALSE),
      Item("document", TRUE, MimeUpperVideo, FALSE),
      Item("document", TRUE, MimeShort, FALSE),
      Item("document", TRUE, MimeVideoMp4, FALSE),
      Item("document", TRUE, MimeVideoMp4, TRUE),
      Item("document", TRUE, NoMime, TRUE),
      Item("document", TRUE, MimeImagePng, TRUE) }

\* str.startswith
StartsWith(s, p) == Len(s) >= Len(p) /\ SubSeq(s, 1, Len(p)) = p

\* Truthiness of a str-or-None value.
Truthy(m) == m.present /\ Len(m.chars) > 0

Verdict(raised, is_video, label) == [raised |-> raised, is_video |-> is_video, label |-> label]

\* Mutant: every document with a MIME type qualifies, whatever the type.
ClassifyProduction_anyMime(item) ==
    IF item.media = "none" THEN Verdict("none", FALSE, "none")
    ELSE IF item.media = "document" /\ ~item.doc
    THEN Verdict("AttributeError", FALSE, "none")
    ELSE IF item.video THEN Verdict("none", TRUE, "video")
    ELSE IF item.media = "document" /\ Truthy(item.mime)
    THEN Verdict("none", TRUE, "video (document)")
    ELSE Verdict("none", FALSE, "none")

\* Mutant: the test of the video property stands before the MIME test, so a
\* video sent as a document with a video/ MIME type is labelled by its MIME.
ClassifyProduction_documentLabelWins(item) ==
    IF item.media = "none" THEN Verdict("none", FALSE, "none")
    ELSE IF item.media = "document" /\ ~item.doc
    THEN Verdict("AttributeError", FALSE, "none")
    ELSE LET byMime == /\ item.media = "document"
                       /\ Truthy(item.mime)
                       /\ StartsWith(item.mime.chars, VideoPrefix)
         IN  IF byMime THEN Verdict("none", TRUE, "video (document)")
             ELSE IF item.video THEN Verdict("none", TRUE, "video")
             ELSE Verdict("none", FALSE, "none")

\* telegram_video_forwarder.py, the handler's synchronous part.
ClassifyProduction(item) ==
    IF item.media = "none" THEN Verdict("none", FALSE, "none")
    ELSE IF item.media = "document" /\ ~item.doc
    THEN Verdict("AttributeError", FALSE, "none")
    ELSE LET byMime == /\ item.media = "document"
                       /\ Truthy(item.mime)
                       /\ StartsWith(item.mime.chars, VideoPrefix)
         IN  IF item.video THEN Verdict("none", TRUE, "video")
             ELSE IF byMime THEN Verdict("none", TRUE, "video (document)")
             ELSE Verdict("none", FALSE, "none")

\* main.py, handle_message's test.
ClassifyRender(item) ==
    IF item.video THEN Verdict("none", TRUE, "video")
    ELSE IF item.media = "document"
    THEN IF ~item.doc \/ ~item.mime.present
         THEN Verdict("AttributeError", FALSE, "none")
         ELSE IF StartsWith(item.mime.chars, VideoPrefix)
              THEN Verdict("none", TRUE, "video")
              ELSE Verdict("none", FALSE, "none")
    ELSE Verdict("none", FALSE, "none")

Classify(v, item) == IF v = "production" THEN ClassifyProduction(item) ELSE ClassifyRender(item)

\* ------------------------------------------------------- delivery engine
\* Mutant: the RPCError clause stands before the clauses of its subclasses.
ForwardClauses_rpcFirst ==
    <<"RPCError", "FloodWaitError", "SlowModeWaitError", "ChatWriteForbiddenError",
      "UserBannedInChannelError", "MediaEmptyError", "Exception">>

\* The except clauses of _forward_with_retry, in source order.
ForwardClauses ==
    <<"FloodWaitError", "SlowModeWaitError", "ChatWriteForbiddenError",
      "UserBannedInChannelError", "MediaEmptyError", "RPCError", "Exception">>

\* What forward_messages can raise: the named failures, a generic protocol
\* error and an exception that is no RPCError.
ForwardFailures ==
    {"FloodWaitError", "SlowModeWaitError", "ChatWriteForbiddenError",
     "UserBannedInChannelError", "MediaEmptyError", "RPCError", "ConnectionError"}

Timed(e) == e \in {"FloodWaitError", "SlowModeWaitError"}

Failure(e, w) == [kind |-> e, seconds |-> w]
NoFailure == Failure("none", 0)

\* One outcome of a forward call: "ok", or a failure; the timed failures
\* carry the server's wait.
ForwardOutcomes ==
    {Failure("ok", 0)}
    \cup {Failure(e, 0) : e \in {x \in ForwardFailures : ~Timed(x)}}
    \cup {Failure(e, w) : e \in {x \in ForwardFailures : Timed(x)}, w \in Waits}

\* Mutant: the exponent is the attempt number, not the attempt number less one.
Backoff_exponentOffByOne(a) == RETRY_DELAY * (2 ^ a)

\* delay = RETRY_DELAY * (2 ** (attempt - 1))
Backoff(a) == RETRY_DELAY * (2 ^ (a - 1))

\* Mutant: the rate-limit and slow-mode clauses add the exponential delay to
\* the server's wait.
Decision_waitPlusBackoff(f, a) ==
    LET i == FirstMatch(f.kind, ForwardClauses)
    IN  CASE i \in {1, 2} ->
               [do |-> "sleep", secs |-> f.seconds + Backoff(a), branch |-> "wait"]
          [] i \in {3, 4, 5} -> [do |-> "error", secs |-> 0, branch |-> "none"]
          [] i = 6 -> IF a < MAX_RETRIES
                      THEN [do |-> "sleep", secs |-> Backoff(a), branch |-> "backoff"]
                      ELSE [do |-> "error", secs |-> 0, branch |-> "none"]
          [] i = 7 -> [do |-> "error", secs |-> 0, branch |-> "none"]
          [] OTHER -> [do |-> "propagate", secs |-> 0, branch |-> "none"]

\* Mutant: the catch-all clause retries like the RPCError clause.
Decision_unexpectedRetried(f, a) ==
    LET i == FirstMatch(f.kind, ForwardClauses)
    IN  CASE i \in {1, 2} -> [do |-> "sleep", secs |-> f.seconds, branch |-> "wait"]
          [] i \in {3, 4, 5} -> [do |-> "error", secs |-> 0, branch |-> "none"]
          [] i \in {6, 7} -> IF a < MAX_RETRIES
                      THEN [do |-> "sleep", secs |-> Backoff(a), branch |-> "backoff"]
                      ELSE [do |-> "error", secs |-> 0, branch |-> "none"]
          [] OTHER -> [do |-> "propagate", secs |-> 0, branch |-> "none"]

\* Mutant: the MediaEmptyError clause logs and returns without counting.
Decision_mediaNotCounted(f, a) ==
    LET i == FirstMatch(f.kind, ForwardClauses)
    IN  CASE i \in {1, 2} -> [do |-> "sleep", secs |-> f.seconds, branch |-> "wait"]
          [] i \in {3, 4} -> [do |-> "error", secs |-> 0, branch |-> "none"]
          [] i = 5 -> [do |-> "return", secs |-> 0, branch |-> "none"]
          [] i = 6 -> IF a < MAX_RETRIES
                      THEN [do |-> "sleep", secs |-> Backoff(a), branch |-> "backoff"]
                      ELSE [do |-> "error", secs |-> 0, branch |-> "none"]
          [] i = 7 -> [do |-> "error", secs |-> 0, branch |-> "none"]
          [] OTHER -> [do |-> "propagate", secs |-> 0, branch |-> "none"]

\* Mutant: a rate-limit or slow-mode failure at the last attempt is counted
\* at once, without the wait.
Decision_lastWaitSkipped(f, a) ==
    LET i == FirstMatch(f.kind, ForwardClauses)
    IN  CASE i \in {1, 2} -> IF a < MAX_RETRIES
                              THEN [do |-> "sleep", secs |-> f.seconds, branch |-> "wait"]
                              ELSE [do |-> "error", secs |-> 0, branch |-> "none"]
          [] i \in {3, 4, 5} -> [do |-> "error", secs |-> 0, branch |-> "none"]
          [] i = 6 -> IF a < MAX_RETRIES
                      THEN [do |-> "sleep", secs |-> Backoff(a), branch |-> "backoff"]
                      ELSE [do |-> "error", secs |-> 0, branch |-> "none"]
          [] i = 7 -> [do |-> "error", secs |-> 0, branch |-> "none"]
          [] OTHER -> [do |-> "propagate", secs |-> 0, branch |-> "none"]

\* What the except clause that catches failure f at attempt a does before
\* its first await: sleep, count an error and return, or (no clause of the
\* source does this) return without counting.
Decision(f, a) ==
    LET i == FirstMatch(f.kind, ForwardClauses)
    IN  CASE i \in {1, 2} -> [do |-> "sleep", secs |-> f.seconds, branch |-> "wait"]
          [] i \in {3, 4, 5} -> [do |-> "error", secs |-> 0, branch |-> "none"]
          [] i = 6 -> IF a < MAX_RETRIES
                      THEN [do |-> "sleep", secs |-> Backoff(a), branch |-> "backoff"]
                      ELSE [do |-> "error", secs |-> 0, branch |-> "none"]
          [] i = 7 -> [do |-> "error", secs |-> 0, branch |-> "none"]
          [] OTHER -> [do |-> "propagate", secs |-> 0, branch |-> "none"]

\* Mutant: the rate-limit and slow-mode clauses retry whatever the attempt.
AfterSleep_waitAlwaysRetries(b, a) == "retry"

\* What the sleeping except clause does when asyncio.sleep returns.
AfterSleep(b, a) ==
    IF b = "wait"
    THEN IF a < MAX_RETRIES THEN "retry" ELSE "error"
    ELSE "retry"

\* Mutant: the clause around the handler's body names RPCError.
HandlerCatches_rpcOnly(e) == IsInstance(e, "RPCError")

\* except Exception, around the body of the production handler and of
\* handle_message.
HandlerCatches(e) == IsInstance(e, "Exception")

\* ------------------------------------------------------------------ state
Alive == exitCode = -1

InitState ==
    /\ variant \in {"production", "render"}
    /\ mpc = "start"
    /\ exitCode = -1
    /\ client = FALSE
    /\ connected = FALSE
    /\ authOk = FALSE
    /\ sourceOk = FALSE
    /\ destOk = FALSE
    /\ registered = FALSE
    /\ is_running = FALSE
    /\ stopCalled = FALSE
    /\ statsLogged = FALSE
    /\ startErr = "none"
    /\ forwarded_count = 0
    /\ error_count = 0
    /\ detected = "none"
    /\ hpc = [h \in Handlers |-> "idle"]
    /\ attempt = [h \in Handlers |-> 0]
    /\ exc = [h \in Handlers |-> NoFailure]
    /\ branch = [h \in Handlers |-> "none"]
    /\ delay = [h \in Handlers |-> 0]
    /\ calls = [h \in Handlers |-> 0]
    /\ fwd = [h \in Handlers |-> 0]
    /\ err = [h \in Handlers |-> 0]
    /\ hist = [h \in Handlers |-> <<>>]
    /\ sleeps = [h \in Handlers |-> <<>>]

\* asyncio.run ends: every task still pending is cancelled.
Cancelled == [h \in Handlers |-> IF hpc[h] \in {"forward", "sleep"} THEN "cancelled" ELSE hpc[h]]

\* The process ends with exit code c.
ProcessExit(c) ==
    /\ mpc' = "exited"
    /\ exitCode' = c
    /\ connected' = FALSE
    /\ hpc' = Cancelled
    /\ UNCHANGED <<variant, authOk, sourceOk, destOk, registered, is_running,
                   stopCalled, statsLogged>>
    /\ UNCHANGED <<countVars, detected, attempt, exc, branch, delay, calls, fwd, err,
                   tracing, hist, sleeps>>

\* ---------------------------------------------------------------- startup
\* The except clauses around the body of start().
StartClauses(v) ==
    IF v = "production" THEN <<"SessionPasswordNeededError", "Exception">> ELSE <<"Exception">>

\* The except clauses around the get_entity calls.
VerifyClauses(v) ==
    IF v = "production" THEN <<"ChannelPrivateError", "ValueError", "Exception">>
    ELSE <<"Exception">>

\* The except clauses of main() around bot.start(); main.py has none.
MainClauses(v) == IF v = "production" THEN <<"KeyboardInterrupt", "Exception">> ELSE <<>>

\* What client.start() can raise.
StartFailures == {"SessionPasswordNeededError", "ValueError", "ConnectionError"}
\* What get_entity can raise.
ResolveFailures == {"ChannelPrivateError", "ValueError", "ConnectionError"}

\* A failure of client.start(): every clause of start() that catches it
\* calls sys.exit(1), and SystemExit passes the clauses of main(); an
\* exception no clause catches ends the process as well.
StartHandling(v, e) ==
    IF FirstMatch(e, StartClauses(v)) > 0 /\ FirstMatch("SystemExit", MainClauses(v)) > 0
    THEN "stop" ELSE "exit1"

\* Mutant: a failure of get_entity is passed over, as the one of
\* get_permissions is.
VerifyHandling_passed(v, e) == "pass"

\* A failure of get_entity: every clause that catches it calls sys.exit(1),
\* and SystemExit passes the clauses of start() and main(); what no clause
\* here catches reaches the clauses of start().
VerifyHandling(v, e) ==
    IF FirstMatch(e, VerifyClauses(v)) > 0
    THEN IF FirstMatch("SystemExit", StartClauses(v)) > 0 THEN "pass" ELSE "exit1"
    ELSE StartHandling(v, e)

\* start(): SESSION_STRING test (main.py), TelegramClient(...), client.start().
StartClient(outcome) ==
    /\ Alive /\ mpc = "start"
    /\ outcome = "no_session" => variant = "render"
    /\ IF outcome = "no_session"
       THEN ProcessExit(1) /\ startErr' = outcome /\ UNCHANGED client
       ELSE IF outcome = "none"
       THEN /\ client' = TRUE
            /\ connected' = TRUE
            /\ authOk' = TRUE
            /\ mpc' = "verify_source"
            /\ UNCHANGED <<variant, exitCode, sourceOk, destOk, registered, is_running,
                           stopCalled, statsLogged, startErr, countVars, taskVars>>
       ELSE /\ StartHandling(variant, outcome) = "exit1"
            /\ client' = TRUE
            /\ startErr' = outcome
            /\ ProcessExit(1)

\* get_entity(SOURCE_CHANNEL)
VerifySource(e) ==
    /\ Alive /\ mpc = "verify_source"
    /\ IF e = "none"
       THEN /\ sourceOk' = TRUE
            /\ mpc' = "verify_dest"
            /\ UNCHANGED <<variant, exitCode, client, connected, authOk, destOk, registered,
                           is_running, stopCalled, statsLogged, startErr, countVars, taskVars>>
       ELSE IF VerifyHandling(variant, e) = "pass"
       THEN /\ mpc' = "verify_dest"
            /\ startErr' = e
            /\ UNCHANGED <<variant, exitCode, client, connected, authOk, sourceOk, destOk,
                           registered, is_running, stopCalled, statsLogged, countVars,
                           taskVars>>
       ELSE ProcessExit(1) /\ startErr' = e /\ UNCHANGED client

\* get_entity(DEST_CHANNEL)
VerifyDest(e) ==
    /\ Alive /\ mpc = "verify_dest"
    /\ IF e = "none"
       THEN /\ destOk' = TRUE
            /\ mpc' = "permissions"
            /\ UNCHANGED <<variant, exitCode, client, connected, authOk, sourceOk, registered,
                           is_running, stopCalled, statsLogged, startErr, countVars, taskVars>>
       ELSE IF VerifyHandling(variant, e) = "pass"
       THEN /\ mpc' = "permissions"
            /\ startErr' = e
            /\ UNCHANGED <<variant, exitCode, client, connected, authOk, sourceOk, destOk,
                           registered, is_running, stopCalled, statsLogged, countVars,
                           taskVars>>
       ELSE ProcessExit(1) /\ startErr' = e /\ UNCHANGED client

\* Production: get_permissions inside try/except: pass, so every outcome goes
\* on. main.py: the two get_input_entity calls, inside the try whose clause
\* calls sys.exit(1).
CheckAccess(e) ==
    /\ Alive /\ mpc = "permissions"
    /\ IF variant = "production" \/ e = "none"
       THEN /\ mpc' = "register"
            /\ UNCHANGED <<variant, exitCode, client, connected, authOk, sourceOk, destOk,
                           registered, is_running, stopCalled, statsLogged, startErr, countVars,
                           taskVars>>
       ELSE ProcessExit(1) /\ startErr' = e /\ UNCHANGED client

\* _register_handlers(); self.is_running = True; up to the await of
\* run_until_disconnected().
Register ==
    /\ Alive /\ mpc = "register"
    /\ registered' = TRUE
    /\ is_running' = (variant = "production")
    /\ mpc' = "running"
    /\ UNCHANGED <<variant, exitCode, client, connected, authOk, sourceOk, destOk,
                   stopCalled, statsLogged, startErr, countVars, taskVars>>

\* ---------------------------------------------------------------- shutdown
\* run_until_disconnected() ends: it returns, so start() and main() return
\* and the process ends with code 0; or it raises e, which the except
\* Exception clause of start() turns into sys.exit(1).
Disconnected(e) ==
    /\ Alive /\ mpc = "running"
    /\ IF e = "none" THEN ProcessExit(0) ELSE ProcessExit(1)
    /\ UNCHANGED <<client, startErr>>

\* Where a KeyboardInterrupt raised at position pc ends: "stop" when it is
\* raised in the main task's frames and reaches the except KeyboardInterrupt
\* clause of main(), "swallowed" in the bare except around get_permissions,
\* "exit0" when it leaves asyncio.run and the clause under __main__ ends the
\* process.
InterruptOutcome(v, pc, where) ==
    IF where = "main" /\ v = "production" /\ pc = "permissions" THEN "swallowed"
    ELSE IF /\ where = "main"
            /\ FirstMatch("KeyboardInterrupt", StartClauses(v)) = 0
            /\ FirstMatch("KeyboardInterrupt", MainClauses(v)) = 1
    THEN "stop"
    ELSE "exit0"

\* The operator interrupts the process. With outcome "stop" this is stop()
\* up to its await of client.disconnect().
Interrupt(where) ==
    /\ Alive
    /\ mpc \in {"start", "verify_source", "verify_dest", "permissions", "register", "running"}
    /\ LET out == InterruptOutcome(variant, mpc, where)
       IN  IF out = "stop"
           THEN /\ stopCalled' = TRUE
                /\ is_running' = FALSE
                /\ statsLogged' = TRUE
                /\ mpc' = "stopping"
                /\ UNCHANGED <<variant, exitCode, client, connected, authOk, sourceOk,
                               destOk, registered, startErr, countVars, taskVars>>
           ELSE IF out = "swallowed"
           THEN /\ mpc' = "register"
                /\ UNCHANGED <<variant, exitCode, client, connected, authOk, sourceOk,
                               destOk, registered, is_running, stopCalled, statsLogged, startErr,
                               countVars, taskVars>>
           ELSE ProcessExit(0) /\ UNCHANGED <<client, startErr>>

\* stop(): if self.client: await self.client.disconnect()
StopDisconnect ==
    /\ Alive /\ mpc = "stopping"
    /\ connected' = IF client THEN FALSE ELSE connected
    /\ mpc' = "stopped"
    /\ UNCHANGED <<variant, exitCode, client, authOk, sourceOk, destOk, registered,
                   is_running, stopCalled, statsLogged, startErr, countVars, taskVars>>

\* stop() returns, main() returns, asyncio.run ends.
MainReturns ==
    /\ Alive /\ mpc = "stopped"
    /\ ProcessExit(0)
    /\ UNCHANGED <<client, startErr>>

\* The runs of the relay: histories are not recorded.
Init == InitState /\ tracing = FALSE

\* --------------------------------------------------------------- handlers
\* Slots are taken in arrival order.
NextSlot(h) == hpc[h] = "idle" /\ \A g \in Handlers : g < h => hpc[g] # "idle"

\* The handler task ends: pc is its final position, df what it added to
\* forwarded_count, de what it added to error_count.
Finish(h, pc, df, de) ==
    /\ hpc' = [hpc EXCEPT ![h] = pc]
    /\ forwarded_count' = forwarded_count + df
    /\ error_count' = error_count + de
    /\ fwd' = [fwd EXCEPT ![h] = @ + df]
    /\ err' = [err EXCEPT ![h] = @ + de]
    /\ branch' = [branch EXCEPT ![h] = "none"]
    /\ delay' = [delay EXCEPT ![h] = 0]
    /\ UNCHANGED <<attempt, calls, sleeps>>

\* Mutant: the clause around the production handler's body logs the
\* exception and counts nothing.
HandlerExcept_notCounted(h, e) ==
    IF HandlerCatches(e)
    THEN Finish(h, "done", 0, 0)
    ELSE Finish(h, "raised", 0, 0)

\* Exception e reaches the except clause around the handler's body: the
\* production handler logs it and counts an error, handle_message logs it.
\* What the clause does not catch leaves the handler.
HandlerExcept(h, e) ==
    IF HandlerCatches(e)
    THEN Finish(h, "done", 0, IF variant = "production" THEN 1 ELSE 0)
    ELSE Finish(h, "raised", 0, 0)

\* Mutant: the attempt number is kept in one attribute of the bot, which
\* every delivery writes.
CallForward_sharedAttempt(h, a) ==
    /\ hpc' = [hpc EXCEPT ![h] = "forward"]
    /\ attempt' = [g \in Handlers |-> IF g = h \/ hpc[g] \in {"forward", "sleep"} THEN a ELSE attempt[g]]
    /\ calls' = [calls EXCEPT ![h] = @ + 1]
    /\ exc' = [exc EXCEPT ![h] = NoFailure]
    /\ branch' = [branch EXCEPT ![h] = "none"]
    /\ delay' = [delay EXCEPT ![h] = 0]
    /\ UNCHANGED <<countVars, fwd, err, sleeps>>

\* _forward_with_retry(message, a) / forward_to: the call up to its await of
\* the forward primitive.
CallForward(h, a) ==
    /\ hpc' = [hpc EXCEPT ![h] = "forward"]
    /\ attempt' = [attempt EXCEPT ![h] = a]
    /\ calls' = [calls EXCEPT ![h] = @ + 1]
    /\ exc' = [exc EXCEPT ![h] = NoFailure]
    /\ branch' = [branch EXCEPT ![h] = "none"]
    /\ delay' = [delay EXCEPT ![h] = 0]
    /\ UNCHANGED <<countVars, fwd, err, sleeps>>

\* await asyncio.sleep(secs) in except branch b.
Sleep(h, b, secs) ==
    /\ hpc' = [hpc EXCEPT ![h] = "sleep"]
    /\ branch' = [branch EXCEPT ![h] = b]
    /\ delay' = [delay EXCEPT ![h] = secs]
    /\ sleeps' = [sleeps EXCEPT ![h] = IF tracing THEN Append(@, secs) ELSE @]
    /\ UNCHANGED <<countVars, fwd, err, attempt, calls>>

\* A new message arrives from the source channel: the handler runs up to its
\* first await (the classification), or to its end.
Notify(h, item) ==
    /\ Alive /\ registered /\ connected
    /\ NextSlot(h)
    /\ LET v == Classify(variant, item)
       IN  IF v.raised # "none"
           THEN /\ HandlerExcept(h, v.raised)
                /\ exc' = [exc EXCEPT ![h] = Failure(v.raised, 0)]
                /\ UNCHANGED detected
           ELSE IF ~v.is_video
           THEN /\ Finish(h, "done", 0, 0)
                /\ UNCHANGED <<detected, exc>>
           ELSE /\ detected' = v.label
                /\ CallForward(h, 1)
    /\ UNCHANGED <<mainVars, tracing, hist>>

\* Mutant: handle_message delivers through the retrying engine of the
\* production relay.
ForwardReturns_renderRetries(h, f) ==
    /\ Alive /\ hpc[h] = "forward"
    /\ ~connected => f.kind = "ConnectionError"
    /\ exc' = [exc EXCEPT ![h] = IF f.kind = "ok" THEN @ ELSE f]
    /\ hist' = [hist EXCEPT ![h] = IF f.kind = "ok" \/ ~tracing THEN @ ELSE Append(@, f)]
    /\ IF f.kind = "ok"
       THEN Finish(h, "done", IF variant = "production" THEN 1 ELSE 0, 0)
       ELSE LET d == Decision(f, attempt[h])
            IN  CASE d.do = "sleep" -> Sleep(h, d.branch, d.secs)
                  [] d.do = "error" -> Finish(h, "done", 0, 1)
                  [] d.do = "return" -> Finish(h, "done", 0, 0)
                  [] OTHER -> HandlerExcept(h, f.kind)
    /\ UNCHANGED <<mainVars, detected, tracing>>

\* The forward primitive returns or raises.
ForwardReturns(h, f) ==
    /\ Alive /\ hpc[h] = "forward"
    /\ ~connected => f.kind = "ConnectionError"
    /\ exc' = [exc EXCEPT ![h] = IF f.kind = "ok" THEN @ ELSE f]
    /\ hist' = [hist EXCEPT ![h] = IF f.kind = "ok" \/ ~tracing THEN @ ELSE Append(@, f)]
    /\ IF variant = "render"
       THEN IF f.kind = "ok" THEN Finish(h, "done", 0, 0) ELSE HandlerExcept(h, f.kind)
       ELSE IF f.kind = "ok"
       THEN Finish(h, "done", 1, 0)
       ELSE LET d == Decision(f, attempt[h])
            IN  CASE d.do = "sleep" -> Sleep(h, d.branch, d.secs)
                  [] d.do = "error" -> Finish(h, "done", 0, 1)
                  [] d.do = "return" -> Finish(h, "done", 0, 0)
                  [] OTHER -> HandlerExcept(h, f.kind)
    /\ UNCHANGED <<mainVars, detected, tracing>>

\* Mutant: a retry after a rate-limit or slow-mode wait keeps the attempt
\* number; only retries after a generic failure consume it.
Wake_waitKeepsAttempt(h) ==
    /\ Alive /\ hpc[h] = "sleep"
    /\ IF branch[h] = "wait"
       THEN CallForward(h, attempt[h])
       ELSE CallForward(h, attempt[h] + 1)
    /\ UNCHANGED <<mainVars, detected, tracing, hist>>

\* asyncio.sleep returns in a sleeping except clause.
Wake(h) ==
    /\ Alive /\ hpc[h] = "sleep"
    /\ IF AfterSleep(branch[h], attempt[h]) = "retry"
       THEN CallForward(h, attempt[h] + 1)
       ELSE Finish(h, "done", 0, 1) /\ UNCHANGED exc
    /\ UNCHANGED <<mainVars, detected, tracing, hist>>

\* ----------------------------------------------------------- specification
MainStep ==
    \/ \E o \in {"none", "no_session"} \cup StartFailures : StartClient(o)
    \/ \E e \in {"none"} \cup ResolveFailures : VerifySource(e)
    \/ \E e \in {"none"} \cup ResolveFailures : VerifyDest(e)
    \/ \E e \in {"none", "RPCError", "ValueError"} : CheckAccess(e)
    \/ Register
    \/ \E e \in {"none", "ConnectionError"} : Disconnected(e)
    \/ \E w \in {"main", "loop"} : Interrupt(w)
    \/ StopDisconnect
    \/ MainReturns

HandlerStep(h) ==
    \/ \E item \in Items : Notify(h, item)
    \/ \E f \in ForwardOutcomes : ForwardReturns(h, f)
    \/ Wake(h)

Next == MainStep \/ \E h \in Handlers : HandlerStep(h)

Spec == Init /\ [][Next]_vars

\* One delivery with its history recorded: the first notification only.
InitTrace == InitState /\ tracing = TRUE

NextTrace == MainStep \/ HandlerStep(1)

SpecTrace == InitTrace /\ [][NextTrace]_vars

\* The same with the scheduling the event loop gives the delivery: a pending
\* forward call returns or raises, and a pending asyncio.sleep of a finite
\* number of seconds returns.
SpecTraceFair ==
    /\ SpecTrace
    /\ WF_vars(\E f \in ForwardOutcomes : ForwardReturns(1, f))
    /\ WF_vars(Wake(1))

\* ------------------------------------------------------------------ claims
Production == variant = "production"
N == MAX_RETRIES
D == RETRY_DELAY

\* The handler classified its item as qualifying and called the delivery engine.
Qualified(h) == calls[h] >= 1
\* The handler's task is over: it returned, or it was cancelled at process end.
Over(h) == hpc[h] \in {"done", "raised", "cancelled"}
InFlight(h) == hpc[h] \in {"forward", "sleep"}
Counted(h) == fwd[h] + err[h] >= 1

\* C1: every item the handler classified as qualifying is forwarded or counted
\* as an error: no qualifying item's handling is over with neither counter
\* incremented for it.
C1_QualifyingCounted ==
    Production => \A h \in Handlers : (Qualified(h) /\ Over(h)) => Counted(h)

\* Every failure of the handler's delivery so far was a generic RPCError.
AllRPC(h) == hist[h] # <<>> /\ \A i \in 1..Len(hist[h]) : hist[h][i].kind = "RPCError"

Min(a, b) == IF a < b THEN a ELSE b

\* C2: when every forward attempt fails with a generic RPCError, forward is
\* called exactly N times, the k-th failure (k < N) is followed by a sleep of
\* D*2^(k-1) seconds, the N-th by none, and error_count is incremented once,
\* at the N-th failure and not before.
C2_GenericBackoff ==
    Production => \A h \in Handlers : AllRPC(h) =>
        LET n == Len(hist[h])
        IN  /\ n <= N
            /\ sleeps[h] = [k \in 1..Min(n, N - 1) |-> D * (2 ^ (k - 1))]
            /\ n < N => /\ err[h] = 0 /\ error_count = 0
                        /\ calls[h] \in {n, n + 1}
                        /\ hpc[h] = "sleep" => calls[h] = n /\ delay[h] = D * (2 ^ (n - 1))
            /\ n = N => /\ hpc[h] = "done" /\ calls[h] = N
                        /\ err[h] = 1 /\ error_count = 1
                        /\ fwd[h] = 0 /\ forwarded_count = 0

C2_Witness ==
    /\ Production /\ AllRPC(1) /\ Len(hist[1]) = N /\ hpc[1] = "done"
    /\ sleeps[1] = <<5, 10>> /\ calls[1] = 3

\* The failure the i-th forward call of handler h raised.
Failed(h, i) == hist[h][i]

\* Every rate-limit or slow-mode failure was followed by a sleep of exactly the
\* server's wait, and the sleeping handler has changed no counter.
C3_SleepsServerWait ==
    Production => \A h \in Handlers :
        /\ \A i \in 1..Len(hist[h]) :
              Timed(Failed(h, i).kind) =>
                  /\ Len(sleeps[h]) >= i
                  /\ sleeps[h][i] = Failed(h, i).seconds
        /\ (hpc[h] = "sleep" /\ Timed(exc[h].kind)) =>
              /\ delay[h] = exc[h].seconds
              /\ calls[h] = attempt[h]
              /\ fwd[h] = 0 /\ err[h] = 0

\* When that sleep ends at an attempt below N, the next forward call follows
\* with the attempt number one higher and the counters as they were.
C3_RetriesAfterWait ==
    \A h \in Handlers :
        (/\ Production /\ hpc[h] = "sleep" /\ Timed(exc[h].kind) /\ attempt[h] < N
         /\ hpc'[h] \notin {"sleep", "cancelled"}) =>
            /\ hpc'[h] = "forward"
            /\ attempt'[h] = attempt[h] + 1
            /\ calls'[h] = calls[h] + 1
            /\ sleeps'[h] = sleeps[h]
            /\ UNCHANGED <<forwarded_count, error_count, fwd, err>>

\* The slow-mode clause decides as the rate-limit clause does.
C3_SlowModeAsRateLimit ==
    \A a \in 1..N, w \in Waits :
        Decision(Failure("SlowModeWaitError", w), a) = Decision(Failure("FloodWaitError", w), a)

\* C3: a rate-limit or slow-mode failure with wait W at attempt a < N is
\* followed by a sleep of exactly W seconds (no backoff delay added or put in
\* its place), then by the next forward call with attempt a + 1, and neither
\* counter changes; slow-mode is handled as rate-limit is.
C3_WaitThenRetry ==
    [](C3_SleepsServerWait /\ C3_SlowModeAsRateLimit) /\ [][C3_RetriesAfterWait]_vars

C3_Witness ==
    /\ Production /\ hpc[1] = "forward" /\ attempt[1] = 3
    /\ hist[1] = <<Failure("FloodWaitError", 1), Failure("SlowModeWaitError", MaxWait)>>
    /\ sleeps[1] = <<1, MaxWait>>
    /\ error_count = 0 /\ forwarded_count = 0

FatalKinds == {"ChatWriteForbiddenError", "UserBannedInChannelError", "MediaEmptyError"}

\* C4: a write-forbidden, user-banned or empty-media failure, at whatever
\* attempt, ends the delivery at once: no sleep follows it, no further forward
\* call is made, and error_count is incremented by exactly one.
C4_FatalReturnsAtOnce ==
    Production => \A h \in Handlers : \A i \in 1..Len(hist[h]) :
        Failed(h, i).kind \in FatalKinds =>
            /\ i = Len(hist[h])
            /\ hpc[h] = "done"
            /\ delay[h] = 0
            /\ Len(sleeps[h]) = i - 1
            /\ calls[h] = i
            /\ err[h] = 1 /\ error_count = 1
            /\ fwd[h] = 0 /\ forwarded_count = 0

C4_Witness ==
    /\ Production /\ Len(hist[1]) = 2 /\ Failed(1, 1).kind = "RPCError"
    /\ Failed(1, 2).kind = "UserBannedInChannelError"
    /\ hpc[1] = "done" /\ calls[1] = 2 /\ sleeps[1] = <<5>>

\* An exception that is none of the named failures and no RPCError.
Unclassified(e) == e \notin {"none", "ok"} /\ ~IsInstance(e, "RPCError")

RECURSIVE Sum(_, _)
Sum(f, S) == IF S = {} THEN 0 ELSE LET x == CHOOSE y \in S : TRUE IN f[x] + Sum(f, S \ {x})

\* The handler's delivery has ended (the engine returned).
Completed(h) == Qualified(h) /\ hpc[h] = "done"
\* The handler caught an exception outside the delivery engine.
HandlerError(h) == ~Qualified(h) /\ hpc[h] = "done" /\ exc[h].kind # "none"

\* Each delivery increments exactly one counter by one: forwarded_count when
\* it succeeded, error_count otherwise, and nothing before it ends.
OneCounterPerDelivery ==
    \A h \in Handlers : Qualified(h) =>
        /\ hpc[h] # "done" => fwd[h] = 0 /\ err[h] = 0
        /\ (hpc[h] = "done" /\ exc[h].kind = "none") => fwd[h] = 1 /\ err[h] = 0
        /\ (hpc[h] = "done" /\ exc[h].kind # "none") => fwd[h] = 0 /\ err[h] = 1

\* No increment is lost: the counters are the sums of the handlers' increments.
NoIncrementLost ==
    /\ forwarded_count = Sum(fwd, Handlers)
    /\ error_count = Sum(err, Handlers)

\* C6 as claimed: each delivery increments exactly one counter by one, and
\* forwarded_count + error_count is the number of completed deliveries.
C6_CountersSumToDeliveries ==
    Production =>
        /\ OneCounterPerDelivery
        /\ NoIncrementLost
        /\ forwarded_count + error_count = Cardinality({h \in Handlers : Completed(h)})

\* C6 amended: each delivery increments exactly one counter by one, no
\* increment is lost, and forwarded_count + error_count is the number of
\* completed deliveries plus the number of notifications whose handler caught
\* an exception outside the delivery engine (each counted once in error_count).
C6_CountersSumToDeliveriesAndHandlerErrors ==
    Production =>
        /\ OneCounterPerDelivery
        /\ NoIncrementLost
        /\ \A h \in Handlers : HandlerError(h) => fwd[h] = 0 /\ err[h] = 1
        /\ \A h \in Handlers : (~Qualified(h) /\ ~HandlerError(h)) => fwd[h] = 0 /\ err[h] = 0
        /\ forwarded_count + error_count =
              Cardinality({h \in Handlers : Completed(h)})
              + Cardinality({h \in Handlers : HandlerError(h)})

C6_Witness ==
    /\ Production /\ mpc = "running"
    /\ Completed(1) /\ calls[1] = N /\ exc[1].kind = "SlowModeWaitError" /\ err[1] = 1
    /\ Completed(2) /\ calls[2] = 2 /\ fwd[2] = 1
    /\ forwarded_count = 1 /\ error_count = 1

\* No exception has left a handler.
C7_NoFailureEscapes == \A h \in Handlers : hpc[h] # "raised"

\* While the relay runs, the next notification is accepted whatever it
\* carries and whatever the earlier handlers came to.
C7_NextNotificationAccepted ==
    (mpc = "running" /\ \E h \in Handlers : hpc[h] = "idle") =>
        \A item \in Items :
            ENABLED (\E h \in Handlers :
                        /\ Notify(h, item)
                        /\ Classify(variant, item).is_video => hpc'[h] = "forward")

\* A step of a handler leaves the main task and the controller as they were.
C7_HandlerStepLeavesMain ==
    (\E h \in Handlers : hpc'[h] # hpc[h] /\ hpc'[h] # "cancelled") => UNCHANGED mainVars

\* C7: no delivery outcome takes the controller out of Running: no failure
\* leaves a handler (production or Render-adapted), a handler's step never
\* moves the controller, and every later notification is still accepted,
\* classified and, if qualifying, handed to delivery.
C7_FailuresContained ==
    /\ [](C7_NoFailureEscapes /\ C7_NextNotificationAccepted)
    /\ [][C7_HandlerStepLeavesMain]_vars

C7_Witness ==
    /\ mpc = "running"
    /\ hpc[1] = "done" /\ exc[1].kind = "ConnectionError" /\ calls[1] = 1
    /\ hpc[2] = "forward" /\ calls[2] = 1

\* C8: a failed authentication or a source or destination that cannot be
\* resolved ends the process with a non-zero code at once; the handler is
\* registered, and notifications are handled, only after authentication and
\* both resolutions succeeded.
C8_NoRunningWithoutResolution ==
    /\ registered => authOk /\ sourceOk /\ destOk /\ startErr = "none"
    /\ mpc = "running" => registered
    /\ \A h \in Handlers : (hpc[h] # "idle" \/ calls[h] > 0) => registered
    /\ startErr # "none" =>
          /\ mpc = "exited" /\ exitCode # 0 /\ exitCode # -1
          /\ ~registered
          /\ \A h \in Handlers : hpc[h] = "idle" /\ calls[h] = 0
    /\ sourceOk => authOk
    /\ destOk => sourceOk

C8_Witness ==
    /\ startErr = "ValueError" /\ authOk /\ sourceOk /\ ~destOk
    /\ mpc = "exited" /\ exitCode = 1 /\ ~registered

\* C9: whenever the controller has left Running and the process has ended,
\* stop() ran: the statistics were logged and the client was disconnected by it.
C9_LeavesThroughStopping ==
    (Production /\ registered /\ mpc = "exited") => (stopCalled /\ statsLogged)

\* C10: once stop() has released the connection, no delivery is in flight or
\* was cut off, and every delivery handed to the engine has been counted.
C10_GracefulShutdown ==
    (Production /\ stopCalled /\ ~connected) =>
        \A h \in Handlers :
            /\ ~InFlight(h) /\ hpc[h] # "cancelled"
            /\ Qualified(h) => Counted(h)

\* The step is the arrival of a notification at handler h (every Notify step
\* is one, and no other step takes a handler out of "idle").
Arrives(h) == hpc[h] = "idle" /\ hpc'[h] # "idle"

\* The items the classifier must reject: no media, a media that is neither a
\* document nor a video, a document whose MIME type is absent or does not
\* start with "video/"; none with the message's video property set.
Rejects(item) ==
    /\ ~item.video
    /\ \/ item.media \in {"none", "photo"}
       \/ /\ item.media = "document" /\ item.doc
          /\ ~item.mime.present \/ ~StartsWith(item.mime.chars, VideoPrefix)

\* The notification of a rejected item ends its handler with no forward call
\* and both counters as they were.
C11_RejectedLeavesNoTrace ==
    \A h \in Handlers : Arrives(h) => \A item \in Items :
        (Rejects(item) /\ Notify(h, item)) =>
            /\ hpc'[h] = "done"
            /\ calls' = calls
            /\ UNCHANGED <<forwarded_count, error_count, fwd, err>>

\* A handler that has ended makes no forward call and changes no counter.
C11_EndedHandlerIsSilent ==
    \A h \in Handlers :
        hpc[h] = "done" =>
            /\ hpc'[h] = "done" /\ calls'[h] = calls[h]
            /\ fwd'[h] = fwd[h] /\ err'[h] = err[h]

Reference(item) ==
    IF item.video THEN Verdict("none", TRUE, "video")
    ELSE IF /\ item.media = "document"
            /\ item.mime.present
            /\ StartsWith(item.mime.chars, VideoPrefix)
    THEN Verdict("none", TRUE, "video (document)")
    ELSE Verdict("none", FALSE, "none")

\* The running handler's verdict on every item is the reference's; the label
\* is the production handler's media_type (handle_message keeps none).
C12_VerdictIsReference ==
    \A item \in Items :
        /\ Classify(variant, item).is_video = Reference(item).is_video
        /\ Production => Classify(variant, item).label = Reference(item).label

\* The handler acts on that verdict: a qualifying item reaches its first
\* forward call under the reference's label, any other item ends the handler
\* without one.
C12_HandlerActsOnReference ==
    \A h \in Handlers : Arrives(h) => \A item \in Items :
        Notify(h, item) =>
            IF Reference(item).is_video
            THEN /\ hpc'[h] = "forward" /\ calls'[h] = 1 /\ attempt'[h] = 1
                 /\ Production => detected' = Reference(item).label
            ELSE /\ hpc'[h] = "done" /\ calls'[h] = 0
                 /\ detected' = detected

\* C12: for every combination of video property, media kind and MIME value the
\* handler's classification is the reference precedence: video property set
\* gives qualifying with label "video" whatever the MIME; otherwise a document
\* whose MIME is present and starts with the case-sensitive prefix "video/"
\* gives qualifying with label "video (document)"; otherwise not qualifying.
C12_ClassifiesAsReference ==
    []C12_VerdictIsReference /\ [][C12_HandlerActsOnReference]_vars

C12_Witness ==
    /\ Production /\ mpc = "running"
    /\ hpc[1] = "done" /\ calls[1] = 0 /\ err[1] = 0
    /\ hpc[2] = "forward" /\ calls[2] = 1 /\ detected = "video (document)"

\* A document without the video property whose MIME type is absent.
AbsentMime(item) ==
    item.media = "document" /\ item.doc /\ ~item.video /\ ~item.mime.present

\* The notification of such an item ends the handler with no exception
\* raised or caught, no error counted and no forward call.
C13_AbsentMimeHandledQuietly ==
    \A h \in Handlers : Arrives(h) => \A item \in Items :
        (AbsentMime(item) /\ Notify(h, item)) =>
            /\ exc'[h].kind = "none"
            /\ hpc'[h] = "done" /\ calls'[h] = 0
            /\ UNCHANGED <<forwarded_count, error_count, fwd, err>>

\* C13: in the production handler and in the Render-adapted handler alike, a
\* document without the video property whose MIME type is absent is
\* classified as non-qualifying without any failure: no exception is raised
\* or caught, no error is logged or counted, no forward call is made.
C13_AbsentMimeNoFailure == [][C13_AbsentMimeHandledQuietly]_vars

\* The same for the production handler alone.
C13_AbsentMimeNoFailureInProduction ==
    [][Production => C13_AbsentMimeHandledQuietly]_vars

\* Handlers are numbered in the arrival order of their notifications. A later
\* notification's first forward call comes after every earlier notification's
\* handling reached its own first forward call, or ended without one.
C14_HandedOverInArrivalOrder ==
    \A g \in Handlers, h \in Handlers :
        (g < h /\ calls[h] >= 1) => hpc[g] # "idle"

\* The strictly sequential reading: it comes after every earlier delivery, its
\* retry sleeps included, has terminated.
C14_OneDeliveryAtATime ==
    \A g \in Handlers, h \in Handlers :
        (g < h /\ calls[h] >= 1) => ~InFlight(g)

\* C14: qualifying items are handed to delivery in arrival order and processed
\* one at a time: the first forward call for a later notification never comes
\* before every earlier notification's handling has reached its first forward
\* call, nor (strictly sequential reading) before the earlier item's delivery,
\* retry sleeps included, has terminated.
C14_InOrderOneAtATime ==
    Production => (C14_HandedOverInArrivalOrder /\ C14_OneDeliveryAtATime)

\* The forward primitive is invoked at most N times for an item, the attempt
\* number of a delivery in flight is the number of its calls so far, and every
\* failure recorded belongs to one call.
C15_AtMostNCalls ==
    Production => \A h \in Handlers :
        /\ calls[h] <= N
        /\ Len(hist[h]) <= calls[h]
        /\ InFlight(h) => attempt[h] = calls[h] /\ attempt[h] \in 1..N

\* Every forward call of an item, the first and each retry, carries the
\* attempt number of the call before it plus one.
C15_AttemptIncrementsByOne ==
    \A h \in Handlers :
        calls'[h] # calls[h] =>
            /\ calls'[h] = calls[h] + 1
            /\ attempt'[h] = attempt[h] + 1
            /\ hpc'[h] = "forward"

\* A delivery in flight comes to its end.
C15_DeliveryTerminates == \A h \in Handlers : InFlight(h) ~> ~InFlight(h)

\* C15: for every item and every sequence of forward outcomes mixing all
\* failure kinds, the attempt number increases by exactly one on each retry
\* and the forward primitive is invoked at most N times for the item, so the
\* delivery terminates, every server-specified wait being finite.
C15_BoundedRetries ==
    /\ []C15_AtMostNCalls
    /\ [][C15_AttemptIncrementsByOne]_vars
    /\ C15_DeliveryTerminates

C15_Witness ==
    /\ Production /\ mpc = "running" /\ hpc[1] = "done" /\ calls[1] = N
    /\ hist[1] = <<Failure("FloodWaitError", 1), Failure("RPCError", 0),
                   Failure("SlowModeWaitError", MaxWait)>>
    /\ sleeps[1] = <<1, 10, MaxWait>>
    /\ err[1] = 1 /\ fwd[1] = 0

\* What belongs to one delivery: its position, attempt number, caught
\* failure, sleeping branch, pending wait, forward calls and outcome.
Delivery(h) ==
    <<hpc[h], attempt[h], exc[h], branch[h], delay[h], calls[h], fwd[h], err[h]>>

\* A step of one handler (arrival, failure, sleep, retry, success) while the
\* process lives leaves every other delivery as it was.
C16_StepTouchesOneDelivery ==
    exitCode' = -1 =>
        \A g \in Handlers, h \in Handlers :
            (g # h /\ Delivery(h)' # Delivery(h)) => Delivery(g)' = Delivery(g)

\* A pending sleep ends by its own expiry or by the end of the process, and
\* keeps its length meanwhile.
C16_SleepEndsOnlyByItself ==
    \A h \in Handlers :
        (hpc[h] = "sleep" /\ ~Wake(h) /\ exitCode' = -1) =>
            hpc'[h] = "sleep" /\ delay'[h] = delay[h] /\ attempt'[h] = attempt[h]

\* C16: two deliveries in flight at once (of distinct items or of one item
\* notified twice) each have their own attempt number and pending wait: a
\* failure, retry, sleep, success or arrival of one never changes the attempt
\* number, the remaining wait, the number of forward calls or the terminal
\* outcome of the other.
C16_DeliveriesIndependent ==
    /\ [](Production => OneCounterPerDelivery)
    /\ [][C16_StepTouchesOneDelivery /\ C16_SleepEndsOnlyByItself]_vars

C16_Witness ==
    /\ Production /\ mpc = "running"
    /\ hpc[1] = "sleep" /\ attempt[1] = 1 /\ delay[1] = MaxWait
    /\ exc[1].kind = "FloodWaitError"
    /\ hpc[2] = "sleep" /\ attempt[2] = 2 /\ delay[2] = 10
    /\ exc[2].kind = "RPCError"

\* The N-th forward call of handler h failed with a rate-limit or slow-mode
\* failure.
TimedAtLast(h) == Len(hist[h]) = N /\ Timed(Failed(h, N).kind)

\* After such a failure the engine sleeps the server's whole wait with no
\* error counted yet, and the delivery ends with one error counted, N calls
\* made and that sleep as its last.
C17_SleepsBeforeAbandoning ==
    Production => \A h \in Handlers : TimedAtLast(h) =>
        /\ calls[h] = N
        /\ Len(sleeps[h]) = N /\ sleeps[h][N] = Failed(h, N).seconds
        /\ hpc[h] \in {"sleep", "done", "cancelled"}
        /\ hpc[h] = "sleep" => /\ delay[h] = Failed(h, N).seconds
                               /\ err[h] = 0 /\ error_count = 0
        /\ hpc[h] = "done" => err[h] = 1 /\ error_count = 1 /\ fwd[h] = 0

\* The end of that sleep records the abandonment and makes no forward call.
C17_AbandonsAfterWait ==
    \A h \in Handlers :
        (/\ Production /\ TimedAtLast(h) /\ hpc[h] = "sleep"
         /\ hpc'[h] \notin {"sleep", "cancelled"}) =>
            /\ hpc'[h] = "done"
            /\ error_count' = error_count + 1
            /\ calls'[h] = calls[h] /\ sleeps'[h] = sleeps[h]
            /\ forwarded_count' = forwarded_count

\* C17: a rate-limit or slow-mode failure with wait W at the final attempt
\* (attempt number N) is still followed by a sleep of the full W seconds, and
\* only then is the abandonment recorded: error_count is incremented after
\* the wait, and no forward call follows it.
C17_FinalWaitThenAbandon ==
    []C17_SleepsBeforeAbandoning /\ [][C17_AbandonsAfterWait]_vars

C17_Witness ==
    /\ Production /\ mpc = "running" /\ TimedAtLast(1)
    /\ Failed(1, N) = Failure("SlowModeWaitError", MaxWait)
    /\ hpc[1] = "done" /\ sleeps[1][N] = MaxWait /\ calls[1] = N
    /\ err[1] = 1 /\ error_count = 1

\* A failure the RPCError clause handles: a protocol error that is none of
\* the named kinds.
Generic(e) == FirstMatch(e, ForwardClauses) = FirstMatch("RPCError", ForwardClauses)

\* C18: rate-limit and slow-mode retries consume the attempt counter that
\* generic failures use: a generic failure at the a-th forward call of an
\* item, whatever the earlier failures were, sleeps D*2^(a-1) when a < N, and
\* at a = N (for instance after N-1 rate-limited attempts) it is followed by
\* no backoff and no retry: the delivery ends with one error counted.
C18_OneAttemptCounter ==
    Production => \A h \in Handlers : \A a \in 1..Len(hist[h]) :
        Generic(Failed(h, a).kind) =>
            /\ a <= N
            /\ calls[h] >= a
            /\ a < N => /\ Len(sleeps[h]) >= a
                        /\ sleeps[h][a] = D * (2 ^ (a - 1))
            /\ a = N => /\ Len(sleeps[h]) = N - 1
                        /\ hpc[h] = "done" /\ calls[h] = N
                        /\ err[h] = 1 /\ error_count = 1 /\ fwd[h] = 0

C18_Witness ==
    /\ Production /\ mpc = "running"
    /\ hist[1] = <<Failure("FloodWaitError", 1), Failure("FloodWaitError", MaxWait),
                   Failure("RPCError", 0)>>
    /\ sleeps[1] = <<1, MaxWait>>
    /\ hpc[1] = "done" /\ calls[1] = N /\ err[1] = 1

\* An item whose inspection raises in the production handler, outside the
\* delivery engine: a document media that holds no document object, so that
\* reading its mime_type raises AttributeError.
RaisesInHandler(item) == item.media = "document" /\ ~item.doc

\* The notification of such an item: the handler catches the exception,
\* counts exactly one error, leaves forwarded_count, makes no forward call,
\* and the relay stays where it was.
C19_CaughtAndCountedOnce ==
    \A h \in Handlers : Arrives(h) => \A item \in Items :
        (Production /\ RaisesInHandler(item) /\ Notify(h, item)) =>
            /\ hpc'[h] = "done" /\ exc'[h].kind # "none"
            /\ error_count' = error_count + 1
            /\ forwarded_count' = forwarded_count
            /\ calls'[h] = 0
            /\ UNCHANGED mainVars
            /\ mpc = "running" => mpc' = "running" /\ registered' /\ connected'

\* A handler that caught such an exception has one error to its name, no
\* forward and no forward call.
C19_HandlerErrorOutcome ==
    Production => \A h \in Handlers :
        HandlerError(h) => err[h] = 1 /\ fwd[h] = 0 /\ calls[h] = 0

\* C19: an exception raised in the notification handler outside the delivery
\* engine's own handling (while the media descriptor is inspected) is caught
\* by the handler, which increments error_count by exactly one, leaves
\* forwarded_count unchanged and makes no forward call for the notification;
\* the relay stays in Running.
C19_HandlerExceptionContained ==
    /\ [](C19_HandlerErrorOutcome /\ C7_NoFailureEscapes)
    /\ [][C19_CaughtAndCountedOnce /\ C11_EndedHandlerIsSilent]_vars

C19_Witness ==
    /\ Production /\ mpc = "running"
    /\ hpc[1] = "done" /\ exc[1].kind = "AttributeError" /\ calls[1] = 0
    /\ err[1] = 1 /\ error_count = 1 /\ forwarded_count = 0
    /\ hpc[2] = "forward"

Render == variant = "render"

\* In the Render-adapted relay an item gets at most one forward call, no
\* handler sleeps, no exception leaves a handler and nothing is counted.
C20_OneCallNoCounters ==
    Render =>
        /\ forwarded_count = 0 /\ error_count = 0
        /\ \A h \in Handlers :
              /\ calls[h] <= 1
              /\ hpc[h] \notin {"sleep", "raised"}
              /\ delay[h] = 0 /\ fwd[h] = 0 /\ err[h] = 0
              /\ Qualified(h) => calls[h] = 1

\* Whatever the forward call raises, handle_message ends there: no sleep, no
\* further call, no counter changed, the main task untouched.
C20_AnyFailureEndsHandler ==
    \A h \in Handlers, f \in ForwardOutcomes :
        (Render /\ f.kind # "ok" /\ ForwardReturns(h, f)) =>
            /\ hpc'[h] = "done" /\ exc'[h] = f
            /\ calls' = calls /\ delay' = delay
            /\ UNCHANGED <<forwarded_count, error_count, fwd, err>>
            /\ UNCHANGED mainVars

\* C20: in the Render-adapted variant a qualifying item gets exactly one
\* forward call: on any failure kind (rate-limit, slow-mode, permission,
\* media, protocol, unknown) the handler logs the error and returns without
\* sleeping or retrying and without recording the failure in any counter, and
\* the relay keeps handling later notifications.
C20_RenderForwardsOnce ==
    /\ [](C20_OneCallNoCounters /\ (Render => C7_NextNotificationAccepted))
    /\ [][C20_AnyFailureEndsHandler /\ (Render => C11_EndedHandlerIsSilent)]_vars

C20_Witness ==
    /\ Render /\ mpc = "running"
    /\ hpc[1] = "done" /\ exc[1] = Failure("FloodWaitError", MaxWait) /\ calls[1] = 1
    /\ hpc[2] = "forward" /\ calls[2] = 1
    /\ error_count = 0

====
